---- MODULE Spec2Model ----
(***************************************************************************)
(* A model of stko's Network (molecular/networkx/network.py), of the       *)
(* MacroModel, xtb, rdkit and .mae helpers of utilities/utilities.py and   *)
(* of OpenBabelEnergy.calculate (calculators/open_babel_calculators.py).   *)
(*                                                                         *)
(* Python objects are kept in heaps indexed by identity: `graphs' holds    *)
(* the networkx graphs and `networks' the Network objects, each holding    *)
(* the index of the graph its _graph attribute refers to.  Floats are      *)
(* modelled by integers.  Text is modelled as a sequence of tokens: the    *)
(* separators the parsers split on ("{", "}", ":::", "f_m_ct", "\n") are   *)
(* tokens of their own and every other token is a whitespace-free word.    *)
(***************************************************************************)
EXTENDS Integers, Sequences, FiniteSets, TLC

VARIABLES
    graphs,     \* heap of networkx graphs: [nodes: Seq, edges: SUBSET Edge]
    networks,   \* heap of Network objects: networks[k] is the index of _graph
    call,       \* the last Network call: operation, arguments, result, heap before
    source,     \* the conformers the .maegz file was written from, in file order
    arg_n,      \* the n given to MAEExtractor(run_name, n)
    files,      \* the file system: a set of [name, data], one per file name
    ex,         \* the MAEExtractor object: its attributes, `attrs' those that are set
    pc,         \* where MAEExtractor.__init__ stands: new, loop, done, raised
    loop_i,     \* the loop variable i of extract_conformers
    exc,        \* the exception __init__ ended with
    returned,   \* what the last call of lowest_energy_conformers returned
    written,    \* the names extract_conformers has written, in order
    block_in,   \* the block handed to MAEExtractor.extract_energy, and its lines
    energy_out, \* what extract_energy did with it
    xtb,        \* the last call of is_valid_xtb_solvent: arguments and outcome
    km,         \* kill_macromodel: os.name, where it stands, the commands run
    rd,         \* the last call of to_rdkit_mol_without_metals: arguments and result
    ob,         \* the OpenBabelEnergy.calculate generators: ob[c] is calculation c
    cwd,        \* the working directory of the calculations: what temp.mol holds
    mf          \* the last call of mol_from_mae_file: the file and the outcome

netVars == <<graphs, networks, call>>

maeVars == <<source, arg_n, files, ex, pc, loop_i, exc, returned, written>>

energyVars == <<block_in, energy_out>>

obVars == <<ob, cwd>>

vars == <<netVars, maeVars, energyVars, xtb, km, rd, obVars, mf>>

\* What the operations of one part leave alone: the state of the other parts.
notNetwork == <<maeVars, energyVars, xtb, km, rd, obVars, mf>>
notMAE == <<netVars, energyVars, xtb, km, rd, obVars, mf>>
notEnergy == <<netVars, maeVars, xtb, km, rd, obVars, mf>>
notXtb == <<netVars, maeVars, energyVars, km, rd, obVars, mf>>
notKill == <<netVars, maeVars, energyVars, xtb, rd, obVars, mf>>
notRdkit == <<netVars, maeVars, energyVars, xtb, km, obVars, mf>>
notOpenBabel == <<netVars, maeVars, energyVars, xtb, km, rd, mf>>
notMolFile == <<netVars, maeVars, energyVars, xtb, km, rd, obVars>>

(***************************************************************************)
(* Bounds of the Network model.                                            *)
(***************************************************************************)
MaxAtoms == 3
MaxBonds == 2
MaxPairs == 1
MaxNetworks == 2

None == "None"

RECURSIVE SeqToSet(_)
SeqToSet(s) == IF s = <<>> THEN {} ELSE {Head(s)} \cup SeqToSet(Tail(s))

(***************************************************************************)
(* Molecules: atoms are given by their ids, in the order get_atoms yields  *)
(* them; the position matrix has one row per atom, row id (0-based) being  *)
(* the position of atom id; a bond has two atom ids, an order and a        *)
(* periodicity.                                                            *)
(***************************************************************************)
PositionRow(i) == <<10 * i + 1, 10 * i + 2, 10 * i + 3>>

BondKinds == {[order |-> 1, periodicity |-> <<0, 0, 0>>],
              [order |-> 2, periodicity |-> <<1, 0, -1>>]}

\* The orders in which get_atoms may yield the atoms 0..n-1: every rotation.
AtomOrders(n) == {[k \in 1..n |-> (k - 1 + r) % n] : r \in 0..(n - 1)}

Bonds(n) == {[atom1 |-> a, atom2 |-> b, order |-> k.order, periodicity |-> k.periodicity] :
                 a \in 0..(n - 1), b \in 0..(n - 1), k \in BondKinds}

Molecule(n, atoms, bonds) ==
    [atoms |-> atoms, pos_mat |-> [i \in 1..n |-> PositionRow(i - 1)], bonds |-> bonds]

(***************************************************************************)
(* PositionedAtom(atom, pos): the atom's id with a position.               *)
(***************************************************************************)
PositionedAtom(atom, pos) == [id |-> atom, pos |-> pos]

EmptyGraph == [nodes |-> <<>>, edges |-> {}]

\* nx.Graph.add_node: a node already in the graph is not added again.
add_node(g, node) ==
    IF node \in SeqToSet(g.nodes) THEN g
    ELSE [g EXCEPT !.nodes = Append(@, node)]

\* nx.Graph.add_edge on an undirected graph: an edge between the same two
\* nodes is replaced (its attributes are updated).
SameEnds(e, u, v) == {e.u, e.v} = {u, v}

add_edge(g, u, v, order, periodicity) ==
    [g EXCEPT !.edges = {e \in @ : ~SameEnds(e, u, v)}
                          \cup {[u |-> u, v |-> v, order |-> order,
                                 periodicity |-> periodicity]}]

\* nx.Graph.remove_edge.
remove_edge(g, u, v) == [g EXCEPT !.edges = {e \in @ : ~SameEnds(e, u, v)}]

\* Mutant of AddAtoms: the position is taken from the row at the atom's place in
\* get_atoms, not from the row at the atom's id.
RECURSIVE AddAtomsByIndex(_, _, _)
AddAtomsByIndex(g, atoms, pos_mat) ==
    IF atoms = <<>> THEN g
    ELSE AddAtomsByIndex(add_node(g, PositionedAtom(Head(atoms), pos_mat[Len(g.nodes) + 1])),
                         Tail(atoms), pos_mat)

RECURSIVE AddAtoms(_, _, _)
AddAtoms(g, atoms, pos_mat) ==
    IF atoms = <<>> THEN g
    ELSE AddAtoms(add_node(g, PositionedAtom(Head(atoms), pos_mat[Head(atoms) + 1])),
                  Tail(atoms), pos_mat)

\* [i for i in g.nodes if i.get_id() in (id1, id2)]
NodesWithIds(g, id1, id2) == SelectSeq(g.nodes, LAMBDA nd : nd.id \in {id1, id2})

\* The edge loop of init_from_molecule; unpacking a list that has not exactly
\* two nodes into n1, n2 raises ValueError.
RECURSIVE AddBonds(_, _)
AddBonds(g, bonds) ==
    IF bonds = <<>> THEN [raised |-> None, graph |-> g]
    ELSE LET bond == Head(bonds)
             found == NodesWithIds(g, bond.atom1, bond.atom2)
         IN  IF Len(found) # 2 THEN [raised |-> "ValueError"]
             ELSE AddBonds(add_edge(g, found[1], found[2], bond.order, bond.periodicity),
                           Tail(bonds))

\* Network.init_from_molecule: the graph built, or the exception raised.
init_from_molecule(m) == AddBonds(AddAtoms(EmptyGraph, m.atoms, m.pos_mat), m.bonds)

(***************************************************************************)
(* Network._with_deleted_bonds on graph g.                                 *)
(***************************************************************************)
SortedPair(p) == IF p[1] <= p[2] THEN p ELSE <<p[2], p[1]>>

\* Mutant of ToDelete: the listed pairs are not sorted before the comparison.
ToDeleteUnsorted(g, atom_ids) ==
    {e \in g.edges : SortedPair(<<e.u.id, e.v.id>>) \in atom_ids}

ToDelete(g, atom_ids) ==
    LET sorted_set == {SortedPair(p) : p \in atom_ids}
    IN  {e \in g.edges : SortedPair(<<e.u.id, e.v.id>>) \in sorted_set}

RECURSIVE RemoveEdges(_, _)
RemoveEdges(g, to_delete) ==
    IF to_delete = {} THEN g
    ELSE LET e == CHOOSE x \in to_delete : TRUE
         IN  RemoveEdges(remove_edge(g, e.u, e.v), to_delete \ {e})

with_deleted_bonds_graph(g, atom_ids) == RemoveEdges(g, ToDelete(g, atom_ids))

\* The pairs atom_ids may list: two different atom ids, in either order.
AtomIdPairs == {p \in (0..(MaxAtoms - 1)) \X (0..(MaxAtoms - 1)) : p[1] # p[2]}
RECURSIVE SetsUpTo(_, _)
SetsUpTo(S, k) ==
    IF k = 0 THEN {{}}
    ELSE LET smaller == SetsUpTo(S, k - 1)
         IN  smaller \cup {s \cup {x} : s \in smaller, x \in S}

AtomIdSets == SetsUpTo(AtomIdPairs, MaxPairs)

NoCall == [op |-> "none"]

IdleNetwork ==
    /\ graphs = <<>>
    /\ networks = <<>>
    /\ call = NoCall

\* network = Network.init_from_molecule(molecule)
InitFromMolecule(molecule) ==
    /\ networks = <<>>
    /\ call = NoCall
    /\ LET r == init_from_molecule(molecule)
           g == r.graph
       IN  IF r.raised # None
           THEN /\ call' = [op |-> "init_from_molecule", molecule |-> molecule,
                            raised |-> r.raised]
                /\ UNCHANGED <<graphs, networks>>
           ELSE /\ graphs' = Append(graphs, g)
                /\ networks' = Append(networks, Len(graphs) + 1)
                /\ call' = [op |-> "init_from_molecule", molecule |-> molecule,
                            raised |-> None, result |-> Len(networks) + 1]
    /\ UNCHANGED notNetwork

\* Network.clone(self): a new Network object on the graph self._graph refers to.
Clone(self) ==
    /\ Len(networks) < MaxNetworks
    /\ networks' = Append(networks, networks[self])
    /\ call' = [op |-> "clone", self |-> self, result |-> Len(networks) + 1,
                before |-> graphs]
    /\ UNCHANGED <<graphs, notNetwork>>

\* Network.with_deleted_bonds(self, atom_ids):
\* self.clone()._with_deleted_bonds(atom_ids)
WithDeletedBonds(self, atom_ids) ==
    /\ Len(networks) < MaxNetworks
    /\ LET clone == Len(networks) + 1
           gi == networks[self]
       IN  /\ networks' = Append(networks, gi)
           /\ graphs' = [graphs EXCEPT ![gi] = with_deleted_bonds_graph(@, atom_ids)]
           /\ call' = [op |-> "with_deleted_bonds", self |-> self,
                       atom_ids |-> atom_ids, result |-> clone, before |-> graphs]
    /\ UNCHANGED notNetwork

NextNetwork ==
    \/ /\ call = NoCall
       /\ \E n \in 1..MaxAtoms : \E atoms \in AtomOrders(n) :
              \E m \in 0..MaxBonds : \E bonds \in [1..m -> Bonds(n)] :
                  InitFromMolecule(Molecule(n, atoms, bonds))
    \/ \E self \in 1..Len(networks) : Clone(self)
    \/ \E self \in 1..Len(networks) : \E atom_ids \in AtomIdSets :
           WithDeletedBonds(self, atom_ids)


(***************************************************************************)
(* Text.  A text is a sequence of tokens; str.split and re.split cut it at *)
(* every separator token, giving one more piece than there are separators. *)
(***************************************************************************)
Split(text, seps) ==
    LET places == [k \in 1..Len(text) |-> k]
        \* where the separators stand, with 0 and Len(text) + 1 for the two ends
        cuts == <<0>> \o SelectSeq(places, LAMBDA k : text[k] \in seps) \o <<Len(text) + 1>>
    IN  [j \in 1..(Len(cuts) - 1) |-> SubSeq(text, cuts[j] + 1, cuts[j + 1] - 1)]

\* sep.join(pieces)
RECURSIVE Join(_, _)
Join(pieces, sep) ==
    IF Len(pieces) = 0 THEN <<>>
    ELSE IF Len(pieces) = 1 THEN pieces[1]
    ELSE pieces[1] \o <<sep>> \o Join(Tail(pieces), sep)

\* needle in text, for the two needles the parsers look for: the only word that
\* has "r_mmod_Potential_Energy" in it is EnergyLabel, and "f_m_ct" is a token.
EnergyLabel == "r_mmod_Potential_Energy-OPLS3"

HasPotentialEnergy(text) == \E k \in 1..Len(text) : text[k] = EnergyLabel

HasFmct(text) == \E k \in 1..Len(text) : text[k] = "f_m_ct"

(***************************************************************************)
(* Python values: a type and a value.  Floats are modelled by integers.    *)
(***************************************************************************)
PyFloat(x) == [type |-> "float", val |-> x]
PyInt(k) == [type |-> "int", val |-> k]
PyNone == [type |-> "NoneType", val |-> 0]

\* The numerals of the model and the floats they denote.
NumeralValue == [t \in {"-5", "3", "7"} |-> IF t = "-5" THEN -5 ELSE IF t = "3" THEN 3 ELSE 7]

\* float(line): the line must hold one numeral and nothing else but white space.
float(line) ==
    IF Len(line) = 1 /\ line[1] \in DOMAIN NumeralValue
    THEN [raised |-> None, value |-> PyFloat(NumeralValue[line[1]])]
    ELSE [raised |-> "ValueError", value |-> PyNone]

(***************************************************************************)
(* MAEExtractor.extract_energy(block)                                      *)
(***************************************************************************)
\* Mutant of ScanLabels: the value is read one line further down.
RECURSIVE ScanLabelsShifted(_, _, _)
ScanLabelsShifted(names, values, k) ==
    IF k > Len(names) \/ k + 1 > Len(values) THEN [raised |-> None, value |-> PyNone]
    ELSE IF HasPotentialEnergy(names[k]) THEN float(values[k + 1])
    ELSE ScanLabelsShifted(names, values, k + 1)

\* The loop over zip(names, values) from position k on.
RECURSIVE ScanLabels(_, _, _)
ScanLabels(names, values, k) ==
    IF k > Len(names) \/ k > Len(values) THEN [raised |-> None, value |-> PyNone]
    ELSE IF HasPotentialEnergy(names[k]) THEN float(values[k])
    ELSE ScanLabels(names, values, k + 1)

extract_energy(block) ==
    LET parts == Split(block, {":::"})
    IN  IF Len(parts) < 2 THEN [raised |-> "IndexError", value |-> PyNone]
        ELSE ScanLabels(Split(parts[1], {"\n"}), Split(parts[2], {"\n"}), 1)

(***************************************************************************)
(* sorted(self.energies): tuples (energy, index) compare by energy, then   *)
(* by index; comparing None with a float raises TypeError.                 *)
(***************************************************************************)
TupleLess(a, b) ==
    \/ a[1].val < b[1].val
    \/ a[1].val = b[1].val /\ a[2].val < b[2].val

RECURSIVE Insert(_, _)
Insert(sorted_list, t) ==
    IF sorted_list = <<>> THEN <<t>>
    ELSE IF TupleLess(t, Head(sorted_list)) THEN <<t>> \o sorted_list
    ELSE <<Head(sorted_list)>> \o Insert(Tail(sorted_list), t)

RECURSIVE SortTuples(_)
SortTuples(list) ==
    IF list = <<>> THEN <<>>
    ELSE Insert(SortTuples(SubSeq(list, 1, Len(list) - 1)), list[Len(list)])

\* Mutant of sorted: the list is left in file order.
unsorted(list) == [raised |-> None, value |-> list]

sorted(list) ==
    IF /\ \E k \in 1..Len(list) : list[k][1].type = "NoneType"
       /\ \E k \in 1..Len(list) : list[k][1].type = "float"
    THEN [raised |-> "TypeError", value |-> <<>>]
    ELSE [raised |-> None, value |-> SortTuples(list)]

\* list[:n], n >= 0
Prefix(list, k) == SubSeq(list, 1, IF k < Len(list) THEN k ELSE Len(list))

(***************************************************************************)
(* MAEExtractor.lowest_energy_conformers(n) on the content of the .mae     *)
(* file: what is raised, what is returned, and the attributes it sets.     *)
(***************************************************************************)
\* The loop over content_split: the energies appended, or the exception of
\* extract_energy.
RECURSIVE ScanBlocks(_, _, _, _)
ScanBlocks(blocks, prev_block, index, energies) ==
    IF blocks = <<>> THEN [raised |-> None, energies |-> energies]
    ELSE LET block == Head(blocks)
         IN  IF HasFmct(prev_block) /\ HasPotentialEnergy(block)
             THEN LET energy == extract_energy(block)
                  IN  IF energy.raised # None
                      THEN [raised |-> energy.raised, energies |-> energies]
                      ELSE ScanBlocks(Tail(blocks), block, index + 1,
                                      Append(energies, <<energy.value, PyInt(index)>>))
             ELSE ScanBlocks(Tail(blocks), block, index, energies)

lowest_energy_conformers(content, num) ==
    LET content_split == Split(content, {"{", "}"})
        scan == ScanBlocks(content_split, <<>>, 1, <<>>)
        srt == sorted(scan.energies)
        confs == Prefix(srt.value, num)
        base == [raised |-> None, content |-> content, energies |-> scan.energies,
                 sets_min |-> FALSE, min_energy |-> PyNone, confs |-> <<>>]
    IN  IF scan.raised # None THEN [base EXCEPT !.raised = scan.raised]
        ELSE IF srt.raised # None THEN [base EXCEPT !.raised = srt.raised]
        ELSE IF confs = <<>> THEN [base EXCEPT !.raised = "IndexError"]
        ELSE [base EXCEPT !.sets_min = TRUE, !.min_energy = confs[1][1], !.confs = confs]

(***************************************************************************)
(* The .mae text of a conformer search.  A conformer is its potential      *)
(* energy numeral, or "absent" for a structure block without that          *)
(* property; its title tells the blocks apart.                             *)
(***************************************************************************)
MaxConfs == 3
MaxN == 3

EnergyTokens == DOMAIN NumeralValue

Header == <<"{", "\n", "s_m_m2io_version", "\n", ":::", "\n", "2.0.0", "\n", "}", "\n">>

ConformerBlock(conformers, k) ==
    LET e == conformers[k]
    IN  <<"{", "\n", "s_m_title", "\n">>
        \o (IF e = "absent" THEN <<>> ELSE <<EnergyLabel, "\n">>)
        \o <<":::", "\n", "conformer" \o ToString(k), "\n">>
        \o (IF e = "absent" THEN <<>> ELSE <<e, "\n">>)
        \o <<"m_atom[1]", "{", "\n", "i_m_mmod_type", "\n", ":::", "\n", "1", "3", "\n",
             ":::", "\n", "}", "\n", "}", "\n">>

RECURSIVE ConformerBlocks(_, _)
ConformerBlocks(conformers, k) ==
    IF k > Len(conformers) THEN <<>>
    ELSE <<"f_m_ct">> \o ConformerBlock(conformers, k) \o ConformerBlocks(conformers, k + 1)

MaeText(conformers) == Header \o ConformerBlocks(conformers, 1)

(***************************************************************************)
(* File names.  run_name-out.maegz, run_name-out.mae and the names the     *)
(* two f-strings of extract_conformers make of the latter.                 *)
(***************************************************************************)
MaegzPath == [ext |-> ".maegz", num |-> 0, conf |-> -1]
MaePath == [ext |-> ".mae", num |-> 0, conf |-> -1]
ExtractedName(num) == [ext |-> "EXTRACTED_{num}.mae", num |-> num, conf |-> -1]
ExtractedConfName(num, k) == [ext |-> "EXTRACTED_{num}_conf_{i}.mae", num |-> num, conf |-> k]

\* open(name, 'w').write(data): the file is created or replaced.
WriteFile(fs, name, data) == {f \in fs : f.name # name} \cup {[name |-> name, data |-> data]}

ReadFile(fs, name) == (CHOOSE f \in fs : f.name = name).data

NewExtractor == [attrs |-> {}, content |-> <<>>, energies |-> <<>>, min_energy |-> PyNone,
                 path |-> MaePath]

IdleMAE ==
    /\ source = <<>>
    /\ arg_n = 0
    /\ files = {}
    /\ ex = NewExtractor
    /\ pc = "idle"
    /\ loop_i = 0
    /\ exc = None
    /\ returned = <<>>
    /\ written = <<>>

IdleEnergy ==
    /\ block_in = [names |-> <<>>, values |-> <<>>, separator |-> FALSE, framed |-> FALSE,
                   text |-> <<>>]
    /\ energy_out = [called |-> FALSE, raised |-> None, value |-> PyNone]

IdleXtb == xtb = [called |-> FALSE]

IdleKill == km = [os_name |-> "posix", pc |-> "idle", ran |-> <<>>, raised |-> None,
                  propagated |-> None]

IdleRdkit == rd = [called |-> FALSE]

\* The two calculations of one working directory.  The directory is what its
\* temp.mol holds: <<>> when there is no such file, <<m>> for molecule m.
Calculations == {1, 2}

NoFile == <<>>

IdleOpenBabel ==
    /\ ob = [c \in Calculations |-> [pc |-> "absent"]]
    /\ cwd = NoFile

IdleMolFile == mf = [called |-> FALSE]

IdleUtilities == IdleRdkit /\ IdleOpenBabel /\ IdleMolFile

InitMAE ==
    /\ IdleNetwork
    /\ IdleEnergy
    /\ IdleXtb
    /\ IdleKill
    /\ IdleUtilities
    /\ \E k \in 1..MaxConfs : source \in [1..k -> EnergyTokens \cup {"absent"}]
    /\ arg_n \in 1..MaxN
    /\ files = {[name |-> MaegzPath, data |-> MaeText(source)]}
    /\ ex = NewExtractor
    /\ pc = "new"
    /\ loop_i = 0
    /\ exc = None
    /\ returned = <<>>
    /\ written = <<>>

\* __init__ up to the call of extract_conformers: maegz_path is set and
\* maegz_to_mae writes what gzip reads from the .maegz file to the .mae file.
MaegzToMae ==
    /\ pc = "new"
    /\ ex' = [ex EXCEPT !.attrs = @ \cup {"maegz_path", "mae_path"}]
    /\ files' = WriteFile(files, MaePath, ReadFile(files, MaegzPath))
    /\ pc' = "loop"
    /\ UNCHANGED <<source, arg_n, loop_i, exc, returned, written, notMAE>>

\* One pass of the loop of extract_conformers(arg_n).
ExtractStep ==
    /\ pc = "loop"
    /\ loop_i < arg_n
    /\ \E low \in {lowest_energy_conformers(ReadFile(files, MaePath), arg_n)} :
       LET seen == [ex EXCEPT !.attrs = @ \cup {"content", "energies"}
                                          \cup (IF low.sets_min THEN {"min_energy"} ELSE {}),
                              !.content = low.content,
                              !.energies = low.energies,
                              !.min_energy = IF low.sets_min THEN low.min_energy ELSE @]
           num == low.confs[loop_i + 1][2].val
           content == Split(low.content, {"f_m_ct"})
           new_mae == Join(<<content[1], content[num + 1]>>, "f_m_ct")
           new_name == IF arg_n = 1 THEN ExtractedName(num) ELSE ExtractedConfName(num, loop_i)
       IN  IF low.raised # None
           THEN /\ ex' = seen
                /\ pc' = "raised"
                /\ exc' = low.raised
                /\ UNCHANGED <<files, loop_i, returned, written>>
           ELSE IF loop_i >= Len(low.confs) \/ num >= Len(content)
           THEN /\ ex' = seen
                /\ returned' = low.confs
                /\ pc' = "raised"
                /\ exc' = "IndexError"
                /\ UNCHANGED <<files, loop_i, written>>
           ELSE /\ files' = WriteFile(files, new_name, new_mae)
                /\ written' = Append(written, new_name)
                /\ returned' = low.confs
                /\ ex' = IF loop_i = 0
                         THEN [seen EXCEPT !.attrs = @ \cup {"path"}, !.path = new_name]
                         ELSE seen
                /\ loop_i' = loop_i + 1
                /\ UNCHANGED <<pc, exc>>
    /\ UNCHANGED <<source, arg_n, notMAE>>

\* The loop is over: extract_conformers and __init__ return None.
ExtractReturn ==
    /\ pc = "loop"
    /\ loop_i = arg_n
    /\ pc' = "done"
    /\ UNCHANGED <<source, arg_n, files, ex, loop_i, exc, returned, written, notMAE>>

NextMAE ==
    \/ MaegzToMae
    \/ ExtractStep
    \/ ExtractReturn

SpecMAE == InitMAE /\ [][NextMAE]_vars

(***************************************************************************)
(* Claims about MAEExtractor.  They are stated against `source', the       *)
(* conformers the file was written from: conformer k is the k-th structure *)
(* block of the file.                                                      *)
(***************************************************************************)
\* The conformers that carry a potential energy, and their energies.
Carriers == {k \in 1..Len(source) : source[k] # "absent"}

EnergyOf(k) == NumeralValue[source[k]]

MinEnergy == CHOOSE e \in {EnergyOf(k) : k \in Carriers} : \A k \in Carriers : e <= EnergyOf(k)

\* The file that holds conformer k alone.
SingleConformerText(k) == Header \o <<"f_m_ct">> \o ConformerBlock(source, k)

\* lowest_energy_conformers has been called (it is called in every pass of the loop).
Called == loop_i > 0 \/ pc \in {"done", "raised"}

\* C3: lowest_energy_conformers returns tuples (conformer id, energy), id first,
\* and energies holds one such tuple for every conformer of the file.
IdThenEnergy(t) ==
    /\ t[1].type = "int"
    /\ t[2].type = "float"
    /\ t[1].val \in Carriers
    /\ t[2].val = EnergyOf(t[1].val)

C3_IdThenEnergy ==
    (Called /\ "energies" \in ex.attrs /\ exc = None) =>
        /\ \A k \in 1..Len(returned) : IdThenEnergy(returned[k])
        /\ \A k \in 1..Len(ex.energies) : IdThenEnergy(ex.energies[k])
        /\ Len(ex.energies) = Len(source)

\* C4: with k >= 1 conformers that carry a potential energy and n >= 1,
\* lowest_energy_conformers(n) returns min(n, k) entries, in non-decreasing
\* order of energy, whose energies are those of min(n, k) conformers no other
\* conformer has less energy than, and min_energy is the least energy of all.
Count(list, e) == Cardinality({k \in 1..Len(list) : list[k][1].val = e})

C4_LowestEnergies ==
    (Called /\ Carriers # {}) =>
        /\ Len(returned) = (IF arg_n < Cardinality(Carriers) THEN arg_n
                            ELSE Cardinality(Carriers))
        /\ \A k \in 1..(Len(returned) - 1) : returned[k][1].val <= returned[k + 1][1].val
        /\ \E chosen \in SUBSET Carriers :
               /\ Cardinality(chosen) = Len(returned)
               /\ \A a \in chosen : \A b \in Carriers \ chosen : EnergyOf(a) <= EnergyOf(b)
               /\ \A e \in {EnergyOf(k) : k \in Carriers} :
                      Count(returned, e) = Cardinality({a \in chosen : EnergyOf(a) = e})
        /\ "min_energy" \in ex.attrs
        /\ ex.min_energy = PyFloat(MinEnergy)

\* Witness of C4: a call that returned two of at least three energies, the file
\* holding a higher energy before a lower one.
C4_Witness ==
    /\ Called
    /\ Len(returned) = 2
    /\ Cardinality(Carriers) >= 3
    /\ \E a, b \in Carriers : a < b /\ EnergyOf(a) > EnergyOf(b)
    /\ returned[1][1].val < returned[2][1].val

\* C5: after MAEExtractor(run_name) with n = 1 on a file with at least one
\* conformer that carries a potential energy, the file at path is the header
\* followed by the structure block of a conformer of minimum energy.
C5_PathHoldsLowest ==
    (pc \in {"done", "raised"} /\ arg_n = 1 /\ Carriers # {}) =>
        /\ pc = "done"
        /\ "path" \in ex.attrs
        /\ \E k \in Carriers :
               /\ EnergyOf(k) = MinEnergy
               /\ ReadFile(files, ex.path) = SingleConformerText(k)

\* C6: on a file whose conformers all carry a potential energy,
\* extract_conformers(n) returns None having written n distinct files, the
\* i-th named after and holding the conformer with the i-th lowest energy, and
\* path is the file written for i = 0.
Rank(k) == Cardinality({a \in Carriers :
               \/ EnergyOf(a) < EnergyOf(k)
               \/ EnergyOf(a) = EnergyOf(k) /\ a < k})

C6_ExtractsN ==
    (pc \in {"done", "raised"} /\ Carriers = 1..Len(source)) =>
        /\ pc = "done"
        /\ Len(written) = arg_n
        /\ \A a, b \in 1..Len(written) : written[a] = written[b] => a = b
        /\ \A j \in 1..arg_n : \E k \in Carriers :
               /\ Rank(k) = j - 1
               /\ written[j] = (IF arg_n = 1 THEN ExtractedName(k)
                                ELSE ExtractedConfName(k, j - 1))
               /\ ReadFile(files, written[j]) = SingleConformerText(k)
        /\ ex.path = written[1]

(***************************************************************************)
(* extract_energy on its own: blocks made of label lines and value lines.  *)
(***************************************************************************)
MaxLabels == 2
MaxValues == 2

LabelWords == {"s_m_title", EnergyLabel}
ValueWords == {"title"} \cup EnergyTokens

\* A line of one word each, the lines joined by "\n".
RECURSIVE Lines(_)
Lines(words) ==
    IF words = <<>> THEN <<>>
    ELSE IF Len(words) = 1 THEN words
    ELSE <<Head(words), "\n">> \o Lines(Tail(words))

\* The text of a block: the labels, ":::" and the values; a framed block has
\* the line break the .mae format puts after "{" and after ":::".
BlockText(names, values, separator, framed) ==
    LET lead == IF framed THEN <<"\n">> ELSE <<>>
    IN  IF separator THEN lead \o Lines(names) \o <<":::">> \o lead \o Lines(values)
        ELSE lead \o Lines(names)

InitEnergy ==
    /\ IdleNetwork
    /\ IdleMAE
    /\ IdleXtb
    /\ IdleKill
    /\ IdleUtilities
    /\ \E a \in 0..MaxLabels : \E b \in 0..MaxValues :
       \E names \in [1..a -> LabelWords] : \E values \in [1..b -> ValueWords] :
       \E separator \in BOOLEAN : \E framed \in BOOLEAN :
           /\ separator \/ values = <<>>
           /\ block_in = [names |-> names, values |-> values, separator |-> separator,
                          framed |-> framed,
                          text |-> BlockText(names, values, separator, framed)]
    /\ energy_out = [called |-> FALSE, raised |-> None, value |-> PyNone]

\* energy = extractor.extract_energy(block)
ExtractEnergy ==
    /\ ~energy_out.called
    /\ \E r \in {extract_energy(block_in.text)} :
           energy_out' = [called |-> TRUE, raised |-> r.raised, value |-> r.value]
    /\ UNCHANGED <<block_in, notEnergy>>

NextEnergy == ExtractEnergy

SpecEnergy == InitEnergy /\ [][NextEnergy]_vars

\* C7: on a block with a ":::" separator, extract_energy returns None when no
\* label line has r_mmod_Potential_Energy in it, and otherwise the float of the
\* value line standing where the first such label line stands, when there is
\* such a value line and it is a numeral.
EnergyLines == {k \in 1..Len(block_in.names) : block_in.names[k] = EnergyLabel}

FirstEnergyLine == CHOOSE k \in EnergyLines : \A j \in EnergyLines : k <= j

C7_ExtractEnergy ==
    (energy_out.called /\ block_in.separator) =>
        IF EnergyLines = {}
        THEN energy_out.raised = None /\ energy_out.value = PyNone
        ELSE (/\ FirstEnergyLine <= Len(block_in.values)
              /\ block_in.values[FirstEnergyLine] \in EnergyTokens)
             => /\ energy_out.raised = None
                /\ energy_out.value =
                       PyFloat(NumeralValue[block_in.values[FirstEnergyLine]])

\* Witness of C7: the energy label stands on the second line and the float
\* returned is that of the second value line, not of the first.
C7_Witness ==
    /\ energy_out.called
    /\ block_in.separator
    /\ block_in.framed
    /\ Len(block_in.values) = 2
    /\ EnergyLines # {}
    /\ FirstEnergyLine = 2
    /\ block_in.values[1] \in EnergyTokens
    /\ block_in.values[2] \in EnergyTokens
    /\ block_in.values[1] # block_in.values[2]
    /\ energy_out.value = PyFloat(NumeralValue[block_in.values[2]])

(***************************************************************************)
(* is_valid_xtb_solvent(gfn_version, solvent_model, solvent)               *)
(***************************************************************************)
\* str.lower on the solvent names the tables spell with capitals.
lower(name) ==
    CASE name = "CH2Cl2" -> "ch2cl2"
      [] name = "CHCl3" -> "chcl3"
      [] name = "CS2" -> "cs2"
      [] name = "DMSO" -> "dmso"
      [] name = "H2O" -> "h2o"
      [] name = "THF" -> "thf"
      [] name = "DMF" -> "dmf"
      [] OTHER -> name

CapitalNames == {"CH2Cl2", "CHCl3", "CS2", "DMSO", "H2O", "THF", "DMF"}

Gfn1Gbsa == {"acetone", "acetonitrile", "benzene",
             lower("CH2Cl2"), lower("CHCl3"), lower("CS2"),
             lower("DMSO"), "ether", lower("H2O"),
             "methanol", lower("THF"), "toluene", "water"}

Gfn1Alpb == {"acetone", "acetonitrile", "aniline", "benzaldehyde",
             "benzene", lower("CH2Cl2"), lower("CHCl3"),
             lower("CS2"), "dioxane", lower("DMF"), lower("DMSO"),
             "ether", "ethylacetate", "furane",
             "hexandecane", "hexane", lower("H2O"), "nitromethane",
             "octanol", "octanol (wet)", "phenol", lower("THF"),
             "toluene", "water"}

Gfn2Gbsa == {"acetone", "acetonitrile",
             "benzene", lower("CH2Cl2"), lower("CHCl3"),
             lower("CS2"), lower("DMSO"),
             "ether", "hexane", "methanol", lower("H2O"),
             lower("THF"), "toluene", "water"}

Gfn2Alpb == {"acetone", "acetonitrile", "aniline", "benzaldehyde",
             "benzene", lower("CH2Cl2"), lower("CHCl3"),
             lower("CS2"), "dioxane", lower("DMF"), lower("DMSO"),
             "ether", "ethylacetate", "furane",
             "hexandecane", "hexane", lower("H2O"), "nitromethane",
             "octanol", "octanol (wet)", "phenol", lower("THF"),
             "toluene", "water"}

\* Mutant of is_valid_xtb_solvent: version 2 is given the tables of version 1.
is_valid_xtb_solvent_v1_tables(gfn_version, solvent_model, solvent) ==
    IF gfn_version = 0 THEN [raised |-> None, result |-> FALSE]
    ELSE IF gfn_version \in {1, 2} /\ solvent_model = "gbsa"
    THEN [raised |-> None, result |-> solvent \in Gfn1Gbsa]
    ELSE IF gfn_version \in {1, 2} /\ solvent_model = "alpb"
    THEN [raised |-> None, result |-> solvent \in Gfn1Alpb]
    ELSE [raised |-> "UnboundLocalError", result |-> FALSE]

\* When no branch binds valid_solvents, the return statement raises
\* UnboundLocalError.
is_valid_xtb_solvent(gfn_version, solvent_model, solvent) ==
    IF gfn_version = 0 THEN [raised |-> None, result |-> FALSE]
    ELSE IF gfn_version = 1 /\ solvent_model = "gbsa"
    THEN [raised |-> None, result |-> solvent \in Gfn1Gbsa]
    ELSE IF gfn_version = 1 /\ solvent_model = "alpb"
    THEN [raised |-> None, result |-> solvent \in Gfn1Alpb]
    ELSE IF gfn_version = 2 /\ solvent_model = "gbsa"
    THEN [raised |-> None, result |-> solvent \in Gfn2Gbsa]
    ELSE IF gfn_version = 2 /\ solvent_model = "alpb"
    THEN [raised |-> None, result |-> solvent \in Gfn2Alpb]
    ELSE [raised |-> "UnboundLocalError", result |-> FALSE]

\* The arguments tried: the versions of the docstring, the two models and one
\* the function does not know, every solvent of a table, the capital spellings
\* and two solvents of no table.
GfnVersions == {0, 1, 2}
SolventModels == {"gbsa", "alpb", "cosmo"}
Solvents == Gfn1Gbsa \cup Gfn1Alpb \cup Gfn2Gbsa \cup Gfn2Alpb \cup CapitalNames
                \cup {"hexadecane", "ethanol"}

InitXtb ==
    /\ IdleNetwork
    /\ IdleMAE
    /\ IdleEnergy
    /\ IdleKill
    /\ IdleUtilities
    /\ IdleXtb

IsValidXtbSolvent(gfn_version, solvent_model, solvent) ==
    /\ \E r \in {is_valid_xtb_solvent(gfn_version, solvent_model, solvent)} :
           xtb' = [called |-> TRUE, gfn_version |-> gfn_version,
                   solvent_model |-> solvent_model, solvent |-> solvent,
                   raised |-> r.raised, result |-> r.result]
    /\ UNCHANGED notXtb

NextXtb ==
    \E gfn_version \in GfnVersions : \E solvent_model \in SolventModels :
    \E solvent \in Solvents : IsValidXtbSolvent(gfn_version, solvent_model, solvent)

SpecXtb == InitXtb /\ [][NextXtb]_vars

\* C8: is_valid_xtb_solvent returns False for version 0; for versions 1 and 2 with
\* model gbsa or alpb it returns True exactly for the solvents of the lower-case
\* table of the pair; the alpb tables of the two versions are equal and the
\* gbsa table of version 2 is that of version 1 plus hexane.
GbsaOfVersion1 == {"acetone", "acetonitrile", "benzene", "ch2cl2", "chcl3", "cs2", "dmso",
                   "ether", "h2o", "methanol", "thf", "toluene", "water"}

AlpbOfBothVersions == (GbsaOfVersion1 \ {"methanol"}) \cup
    {"aniline", "benzaldehyde", "dioxane", "dmf", "ethylacetate", "furane", "hexandecane",
     "hexane", "nitromethane", "octanol", "octanol (wet)", "phenol"}

ExpectedTable(gfn_version, solvent_model) ==
    IF solvent_model = "alpb" THEN AlpbOfBothVersions
    ELSE IF gfn_version = 1 THEN GbsaOfVersion1
    ELSE GbsaOfVersion1 \cup {"hexane"}

C8_ValidSolvent ==
    xtb.called =>
        /\ xtb.gfn_version = 0 => (xtb.raised = None /\ xtb.result = FALSE)
        /\ (xtb.gfn_version \in {1, 2} /\ xtb.solvent_model \in {"gbsa", "alpb"}) =>
               /\ xtb.raised = None
               /\ xtb.result = (xtb.solvent \in ExpectedTable(xtb.gfn_version,
                                                               xtb.solvent_model))
               /\ xtb.result => xtb.solvent \notin CapitalNames

\* Witness of C8: hexane is accepted by the gbsa model of version 2.
C8_Witness ==
    /\ xtb.called
    /\ xtb.gfn_version = 2
    /\ xtb.solvent_model = "gbsa"
    /\ xtb.solvent = "hexane"
    /\ xtb.result = TRUE

(***************************************************************************)
(* kill_macromodel()                                                       *)
(***************************************************************************)
\* What sp.run may raise, and whether the class derives from Exception.
RunRaises == {"FileNotFoundError", "PermissionError", "SubprocessError", "KeyboardInterrupt"}

IsException(name) == name \in {"FileNotFoundError", "PermissionError", "SubprocessError"}

ReturnCodes == {0, 1, 2, 3}

\* The commands of the two branches, in the order they are run.
KillCommands(os_name) ==
    IF os_name = "nt"
    THEN << <<"Taskkill", "/IM", "jserver-watcher.exe", "/F">>,
            <<"Taskkill", "/IM", "jservergo.exe", "/F">> >>
    ELSE IF os_name = "posix"
    THEN << <<"pkill", "jservergo">>, <<"pkill", "jserver-watcher">> >>
    ELSE <<>>

\* Mutant of the handler: only OSError and its subclasses are caught.
CaughtOSErrorOnly(name) == name \in {"FileNotFoundError", "PermissionError"}

\* except Exception
Caught(name) == IsException(name)

OsNames == {"nt", "posix", "java"}

InitKill ==
    /\ IdleNetwork
    /\ IdleMAE
    /\ IdleEnergy
    /\ IdleXtb
    /\ IdleUtilities
    /\ \E os_name \in OsNames :
           km = [os_name |-> os_name, pc |-> "try", ran |-> <<>>, raised |-> None,
                 propagated |-> None]

\* sp.run of the next command returns a CompletedProcess.
KillRun ==
    /\ km.pc = "try"
    /\ Len(km.ran) < Len(KillCommands(km.os_name))
    /\ \E code \in ReturnCodes :
           km' = [km EXCEPT !.ran = Append(@, [args |-> KillCommands(km.os_name)[Len(@) + 1],
                                                returncode |-> code])]
    /\ UNCHANGED notKill

\* sp.run of the next command raises: the handler passes, or the exception
\* leaves the function.
KillRunRaises ==
    /\ km.pc = "try"
    /\ Len(km.ran) < Len(KillCommands(km.os_name))
    /\ \E e \in RunRaises :
           km' = [km EXCEPT !.raised = e,
                            !.pc = IF Caught(e) THEN "except" ELSE "propagated",
                            !.propagated = IF Caught(e) THEN None ELSE e]
    /\ UNCHANGED notKill

\* The end of the function, after the try block or after the handler.
KillReturn ==
    /\ \/ km.pc = "try" /\ Len(km.ran) = Len(KillCommands(km.os_name))
       \/ km.pc = "except"
    /\ km' = [km EXCEPT !.pc = "returned"]
    /\ UNCHANGED notKill

NextKill ==
    \/ KillRun
    \/ KillRunRaises
    \/ KillReturn

SpecKill == InitKill /\ [][NextKill]_vars

\* C9: whatever Exception a kill command raises, kill_macromodel lets none out
\* and goes on to return None; on a platform that is neither nt nor posix it
\* runs no command.
C9_NoExceptionPropagates ==
    /\ km.propagated # None => ~IsException(km.propagated)
    /\ (km.raised # None /\ IsException(km.raised)) => km.pc \in {"except", "returned"}
    /\ km.pc = "except" => ENABLED KillReturn
    /\ km.os_name \notin {"nt", "posix"} => (km.ran = <<>> /\ km.raised = None)

\* Witness of C9: the second command raised an Exception and the call returned.
C9_Witness ==
    /\ km.pc = "returned"
    /\ km.raised = "SubprocessError"
    /\ Len(km.ran) = 1

(***************************************************************************)
(* The specification of Network.                                           *)
(***************************************************************************)
InitNetwork ==
    /\ IdleNetwork
    /\ IdleMAE
    /\ IdleEnergy
    /\ IdleXtb
    /\ IdleKill
    /\ IdleUtilities

SpecNetwork == InitNetwork /\ [][NextNetwork]_vars

(***************************************************************************)
(* Claims about Network.                                                   *)
(***************************************************************************)
GraphOf(heap, k) == heap[networks[k]]

EdgeIds(e) == {e.u.id, e.v.id}

Listed(e, atom_ids) == <<e.u.id, e.v.id>> \in atom_ids \/ <<e.v.id, e.u.id>> \in atom_ids

\* C1: the Network returned by with_deleted_bonds(atom_ids) has no edge whose
\* id pair is listed in atom_ids, in either order, and has every node and every
\* other edge the network had before the call.
C1_DeletedBonds ==
    call.op = "with_deleted_bonds" =>
        LET before == GraphOf(call.before, call.self)
            after == GraphOf(graphs, call.result)
        IN  /\ \A e \in after.edges : ~Listed(e, call.atom_ids)
            /\ after.nodes = before.nodes
            /\ after.edges = {e \in before.edges : ~Listed(e, call.atom_ids)}

\* Witness of C1: a call that deleted an edge listed in reverse order and kept
\* another edge.
C1_Witness ==
    /\ call.op = "with_deleted_bonds"
    /\ \E e \in GraphOf(call.before, call.self).edges :
           /\ <<e.u.id, e.v.id>> \notin call.atom_ids
           /\ <<e.v.id, e.u.id>> \in call.atom_ids
           /\ e \notin GraphOf(graphs, call.result).edges
    /\ GraphOf(graphs, call.result).edges # {}

\* C2: after with_deleted_bonds or clone, the Network the call was made on, and
\* every other Network that existed before the call, has the edges it had
\* before the call.
C2_OriginalKeepsEdges ==
    call.op \in {"with_deleted_bonds", "clone"} =>
        \A k \in 1..(Len(networks) - 1) :
            GraphOf(graphs, k).edges = GraphOf(call.before, k).edges

\* C10: for a molecule with distinct atom ids whose bonds each join two distinct
\* atoms, init_from_molecule builds one node per atom, carrying the atom's id
\* and the position at row id, and one edge per bonded pair, carrying the order
\* and periodicity of a bond of that pair (of the bond, when there is one).
DistinctBondAtoms(m) == \A k \in 1..Len(m.bonds) : m.bonds[k].atom1 # m.bonds[k].atom2

BondsOn(m, ids) == {k \in 1..Len(m.bonds) : {m.bonds[k].atom1, m.bonds[k].atom2} = ids}

C10_InitFromMolecule ==
    (call.op = "init_from_molecule" /\ DistinctBondAtoms(call.molecule)) =>
        /\ call.raised = None
        /\ LET m == call.molecule
               g == GraphOf(graphs, call.result)
           IN  /\ Len(g.nodes) = Len(m.atoms)
               /\ SeqToSet(g.nodes) =
                      {[id |-> m.atoms[k], pos |-> m.pos_mat[m.atoms[k] + 1]] :
                           k \in 1..Len(m.atoms)}
               /\ {EdgeIds(e) : e \in g.edges} =
                      {{m.bonds[k].atom1, m.bonds[k].atom2} : k \in 1..Len(m.bonds)}
               /\ \A e, f \in g.edges : EdgeIds(e) = EdgeIds(f) => e = f
               /\ \A e \in g.edges :
                      /\ {e.u, e.v} \subseteq SeqToSet(g.nodes)
                      /\ \E k \in BondsOn(m, EdgeIds(e)) :
                             /\ e.order = m.bonds[k].order
                             /\ e.periodicity = m.bonds[k].periodicity

\* Witness of C10: a graph built from three atoms given out of id order, with
\* two edges of different order.
C10_Witness ==
    /\ call.op = "init_from_molecule"
    /\ call.raised = None
    /\ DistinctBondAtoms(call.molecule)
    /\ Len(call.molecule.atoms) = 3
    /\ call.molecule.atoms[1] # 0
    /\ \E e, f \in GraphOf(graphs, call.result).edges : e.order # f.order

(***************************************************************************)
(* to_rdkit_mol_without_metals (utilities/utilities.py).  An stk molecule  *)
(* is its atoms in id order, ids 0..n-1, its bonds and its position        *)
(* matrix; an atom is the record of its id, atomic number and charge, and  *)
(* as the ids of one molecule differ, equal records are the same object,   *)
(* which is what Python's `in' on a list of atoms or bonds compares.  The  *)
(* rdkit molecule is the sequence of its atoms, index 0 first, the         *)
(* sequence of its bonds and its conformers.                               *)
(***************************************************************************)
MaxRdAtoms == 3
MaxRdBonds == 2

\* A carbanion and an iron(II) centre: the atomic number and the formal
\* charge of either differ from those of the hydrogen that replaces it.
AtomKinds == {[atomic_number |-> 6, charge |-> -1], [atomic_number |-> 26, charge |-> 2]}

StkAtom(id, kind) == [id |-> id, atomic_number |-> kind.atomic_number, charge |-> kind.charge]

\* The bonds a molecule of n atoms can hold: two distinct atoms in either
\* direction, of order 1 or 2.
StkBonds(atoms) ==
    {[atom1 |-> atoms[a], atom2 |-> atoms[b], order |-> IF a < b THEN 1 ELSE 2] :
        <<a, b>> \in {p \in (1..Len(atoms)) \X (1..Len(atoms)) : p[1] # p[2]}}

BondKey(bond) ==
    IF bond.atom1.id < bond.atom2.id
        THEN bond.atom1.id * (MaxRdAtoms + 2) + bond.atom2.id
        ELSE bond.atom2.id * (MaxRdAtoms + 2) + bond.atom1.id

\* stk keeps at most one bond between two atoms; the bonds are listed by
\* the ids they join.
StkBondLists(atoms) ==
    UNION {{bs \in [1..m -> StkBonds(atoms)] :
                \A k \in 1..(m - 1) : BondKey(bs[k]) < BondKey(bs[k + 1])} :
           m \in 0..MaxRdBonds}

StkMolecule(atoms, bonds) ==
    [atoms |-> atoms, bonds |-> bonds,
     position_matrix |-> [k \in 1..Len(atoms) |-> PositionRow(k - 1)]]

\* The sublists of a list, in list order (a list of metal atoms or bonds).
SubLists(list) ==
    {SelectSeq(list, LAMBDA x : x \in chosen) : chosen \in SUBSET SeqToSet(list)}

In(x, list) == \E k \in 1..Len(list) : list[k] = x

\* rdkit.EditableMol(rdkit.Mol())
EditableMol == [raised |-> None, atoms |-> <<>>, bonds |-> <<>>, conformers |-> <<>>]

\* rdkit.Atom(num) with SetFormalCharge(charge)
RdkitAtom(num, charge) == [atomic_number |-> num, charge |-> charge, no_implicit |-> FALSE]

\* EditableMol.AddAtom: the new atom takes the next index.
AddAtom(emol, atom) == [emol EXCEPT !.atoms = Append(@, atom)]

\* EditableMol.AddBond: rdkit refuses an index that is out of range, a bond of
\* an atom to itself and a second bond between two atoms.
AddBond(emol, begin, end, order) ==
    IF \/ begin \notin 0..(Len(emol.atoms) - 1)
       \/ end \notin 0..(Len(emol.atoms) - 1)
       \/ begin = end
       \/ \E k \in 1..Len(emol.bonds) : {emol.bonds[k].begin, emol.bonds[k].end} = {begin, end}
        THEN [emol EXCEPT !.raised = "RuntimeError"]
        ELSE [emol EXCEPT !.bonds = Append(@, [begin |-> begin, end |-> end, order |-> order])]

\* The loop over mol.get_atoms() with the metals dropped instead of replaced.
RECURSIVE AddAtomsDroppingMetals(_, _, _)
AddAtomsDroppingMetals(emol, atoms, metal_atoms) ==
    IF atoms = <<>> THEN emol
    ELSE AddAtomsDroppingMetals(
             IF In(Head(atoms), metal_atoms) THEN emol
             ELSE AddAtom(emol, RdkitAtom(Head(atoms).atomic_number, Head(atoms).charge)),
             Tail(atoms), metal_atoms)

\* The loop over mol.get_atoms(): a hydrogen of charge 0 in place of a metal.
RECURSIVE AddRdkitAtoms(_, _, _)
AddRdkitAtoms(emol, atoms, metal_atoms) ==
    IF atoms = <<>> THEN emol
    ELSE AddRdkitAtoms(
             AddAtom(emol, IF In(Head(atoms), metal_atoms)
                               THEN RdkitAtom(1, 0)
                               ELSE RdkitAtom(Head(atoms).atomic_number, Head(atoms).charge)),
             Tail(atoms), metal_atoms)

\* The loop over mol.get_bonds(): the first AddBond that raises ends it.
RECURSIVE AddRdkitBonds(_, _, _)
AddRdkitBonds(emol, bonds, metal_bonds) ==
    IF bonds = <<>> \/ emol.raised # None THEN emol
    ELSE AddRdkitBonds(
             IF In(Head(bonds), metal_bonds) THEN emol
             ELSE AddBond(emol, Head(bonds).atom1.id, Head(bonds).atom2.id, Head(bonds).order),
             Tail(bonds), metal_bonds)

\* GetMol(), then the conformer: a position for every row of the position
\* matrix and SetNoImplicit(True) on the atom of that index.
AddConformer(emol, position_matrix) ==
    IF emol.raised # None THEN emol
    ELSE IF Len(position_matrix) > Len(emol.atoms) THEN [emol EXCEPT !.raised = "RuntimeError"]
    ELSE [emol EXCEPT
             !.atoms = [k \in 1..Len(@) |->
                           IF k <= Len(position_matrix)
                               THEN [@[k] EXCEPT !.no_implicit = TRUE] ELSE @[k]],
             !.conformers = Append(@, position_matrix)]

to_rdkit_mol_without_metals(mol, metal_atoms, metal_bonds) ==
    AddConformer(
        AddRdkitBonds(AddRdkitAtoms(EditableMol, mol.atoms, metal_atoms),
                      mol.bonds, metal_bonds),
        mol.position_matrix)

InitRdkit ==
    /\ IdleNetwork
    /\ IdleMAE
    /\ IdleEnergy
    /\ IdleXtb
    /\ IdleKill
    /\ IdleOpenBabel
    /\ IdleMolFile
    /\ \E n \in 1..MaxRdAtoms : \E kinds \in [1..n -> AtomKinds] :
           \E atoms \in {[k \in 1..n |-> StkAtom(k - 1, kinds[k])]} :
               \E bonds \in StkBondLists(atoms) :
                   \E metal_atoms \in SubLists(atoms) : \E metal_bonds \in SubLists(bonds) :
                       rd = [called |-> FALSE, mol |-> StkMolecule(atoms, bonds),
                             metal_atoms |-> metal_atoms, metal_bonds |-> metal_bonds]

ToRdkitMolWithoutMetals ==
    /\ ~rd.called
    /\ rd' = [rd EXCEPT !.called = TRUE] @@
             [result |-> to_rdkit_mol_without_metals(rd.mol, rd.metal_atoms, rd.metal_bonds)]
    /\ UNCHANGED notRdkit

NextRdkit == ToRdkitMolWithoutMetals

SpecRdkit == InitRdkit /\ [][NextRdkit]_vars

\* The (begin, end) index pairs of the bonds of an rdkit molecule, and the
\* (atom1 id, atom2 id) pairs of a list of stk bonds.
RdkitBondEnds(rmol) == {<<rmol.bonds[k].begin, rmol.bonds[k].end>> : k \in 1..Len(rmol.bonds)}

StkBondEnds(bonds) == {<<bonds[k].atom1.id, bonds[k].atom2.id>> : k \in 1..Len(bonds)}

\* C11: to_rdkit_mol_without_metals does not change atom ids: the result has
\* as many atoms as mol, its atom at index i is a hydrogen of formal charge 0
\* when mol's i-th atom is in metal_atoms and has that atom's atomic number and
\* charge otherwise, and its bonds are exactly the bonds of mol that are not
\* in metal_bonds, one each, between the same atom ids.
C11_AtomIdsKept ==
    rd.called =>
        /\ rd.result.raised = None
        /\ Len(rd.result.atoms) = Len(rd.mol.atoms)
        /\ \A k \in 1..Len(rd.mol.atoms) :
               IF rd.mol.atoms[k] \in SeqToSet(rd.metal_atoms)
                   THEN /\ rd.result.atoms[k].atomic_number = 1
                        /\ rd.result.atoms[k].charge = 0
                   ELSE /\ rd.result.atoms[k].atomic_number = rd.mol.atoms[k].atomic_number
                        /\ rd.result.atoms[k].charge = rd.mol.atoms[k].charge
        /\ RdkitBondEnds(rd.result) =
               StkBondEnds(SelectSeq(rd.mol.bonds, LAMBDA b : b \notin SeqToSet(rd.metal_bonds)))
        /\ Len(rd.result.bonds) = Cardinality(SeqToSet(rd.mol.bonds) \ SeqToSet(rd.metal_bonds))

\* A molecule of three atoms whose first is a metal in metal_atoms, with two
\* bonds of which the one on the metal is in metal_bonds, has been converted.
C11_Witness ==
    /\ rd.called
    /\ Len(rd.mol.atoms) = 3
    /\ rd.metal_atoms = <<rd.mol.atoms[1]>>
    /\ rd.mol.atoms[1].atomic_number = 26
    /\ Len(rd.mol.bonds) = 2
    /\ Len(rd.metal_bonds) = 1
    /\ rd.metal_bonds[1].atom1 = rd.mol.atoms[1]
    /\ Len(rd.result.bonds) = 1
    /\ rd.result.atoms[1].atomic_number = 1

(***************************************************************************)
(* OpenBabelEnergy.calculate (calculators/open_babel_calculators.py).      *)
(* calculate is a generator: ob[c] is one generator, from its creation to  *)
(* its yield or its exception, one action per statement that touches the   *)
(* file or can raise.  A molecule is a number; a file or an OBMol holding  *)
(* molecule m is <<m>>, and the OBMol is <<>> as long as nothing was read  *)
(* into it.                                                                *)
(***************************************************************************)
MaxMols == 2

Mols == 1..MaxMols

\* The force fields the class names, and a name openbabel does not know.
KnownForceFields == {"uff", "gaff", "ghemical", "mmff94"}

ForceFieldNames == KnownForceFields \cup {"amber"}

NewCalculation(mol, forcefield) ==
    [pc |-> "created", mol |-> mol, forcefield |-> forcefield, wrote |-> FALSE,
     OBMol |-> <<>>, pending |-> None, found |-> FALSE, raised |-> None, energy |-> <<>>]

\* mol.write(temp_file): the file holds the molecule, whatever it held.
write(dir, mol) == <<mol>>

\* obConversion.ReadFile(OBMol, temp_file): the molecule of the file, and
\* nothing when there is no file (ReadFile then returns False, which
\* calculate does not look at).
ReadTempFile(dir) == dir

\* The finally clause with the removal left to the path without exception.
RemoveUnlessRaised(dir, pending) == IF pending = None THEN NoFile ELSE dir

\* finally: os.system('rm temp.mol'), whether the try block raised or not.
RemoveTempFile(dir, pending) == NoFile

\* openbabel.OBForceField.FindForceField(name): None for an unknown name.
FindForceField(name) == name \in KnownForceFields

\* forcefield.Energy() of the molecule that was read.
Energy(obmol) == obmol

InitCalculations(running) ==
    /\ IdleNetwork
    /\ IdleMAE
    /\ IdleEnergy
    /\ IdleXtb
    /\ IdleKill
    /\ IdleRdkit
    /\ IdleMolFile
    /\ \E mols \in [running -> Mols] : \E names \in [running -> ForceFieldNames] :
           ob = [c \in Calculations |->
                    IF c \in running THEN NewCalculation(mols[c], names[c])
                    ELSE [pc |-> "absent"]]
    /\ cwd \in {NoFile} \cup {<<m>> : m \in Mols}

\* One calculation in its working directory, and two at once.
InitOpenBabel == InitCalculations({1})

InitConcurrent == InitCalculations(Calculations)

\* mol.write(temp_file)
Write(c) ==
    /\ ob[c].pc = "created"
    /\ cwd' = write(cwd, ob[c].mol)
    /\ ob' = [ob EXCEPT ![c].pc = "try", ![c].wrote = TRUE]
    /\ UNCHANGED notOpenBabel

\* mol.write raises (the directory is not writable): the exception leaves
\* calculate before the try statement.
WriteRaises(c) ==
    /\ ob[c].pc = "created"
    /\ ob' = [ob EXCEPT ![c].pc = "raised", ![c].raised = "OSError"]
    /\ UNCHANGED <<cwd, notOpenBabel>>

\* obConversion.ReadFile(OBMol, temp_file)
Read(c) ==
    /\ ob[c].pc = "try"
    /\ ob' = [ob EXCEPT ![c].pc = "read", ![c].OBMol = ReadTempFile(cwd)]
    /\ UNCHANGED <<cwd, notOpenBabel>>

\* ReadFile raises: control goes to the finally clause.
ReadRaises(c) ==
    /\ ob[c].pc = "try"
    /\ ob' = [ob EXCEPT ![c].pc = "finally", ![c].pending = "RuntimeError"]
    /\ UNCHANGED <<cwd, notOpenBabel>>

\* OBMol.PerceiveBondOrders()
PerceiveBondOrders(c) ==
    /\ ob[c].pc = "read"
    /\ ob' = [ob EXCEPT ![c].pc = "finally"]
    /\ UNCHANGED <<cwd, notOpenBabel>>

PerceiveBondOrdersRaises(c) ==
    /\ ob[c].pc = "read"
    /\ ob' = [ob EXCEPT ![c].pc = "finally", ![c].pending = "RuntimeError"]
    /\ UNCHANGED <<cwd, notOpenBabel>>

\* finally: rm temp.mol, then the pending exception, if any, leaves calculate.
Finally(c) ==
    /\ ob[c].pc = "finally"
    /\ cwd' = RemoveTempFile(cwd, ob[c].pending)
    /\ ob' = [ob EXCEPT ![c].pc = IF ob[c].pending = None THEN "forcefield" ELSE "raised",
                        ![c].raised = ob[c].pending]
    /\ UNCHANGED notOpenBabel

\* forcefield = openbabel.OBForceField.FindForceField(self._forcefield)
FindForceFieldStep(c) ==
    /\ ob[c].pc = "forcefield"
    /\ ob' = [ob EXCEPT ![c].pc = "setup", ![c].found = FindForceField(ob[c].forcefield)]
    /\ UNCHANGED <<cwd, notOpenBabel>>

\* outcome = forcefield.Setup(OBMol): None has no Setup; a false outcome
\* raises ForceFieldSetupError.
Setup(c, outcome) ==
    /\ ob[c].pc = "setup"
    /\ ob' = [ob EXCEPT
                 ![c].pc = IF ob[c].found /\ outcome THEN "energy" ELSE "raised",
                 ![c].raised = IF ~ob[c].found THEN "AttributeError"
                               ELSE IF ~outcome THEN "ForceFieldSetupError" ELSE None]
    /\ UNCHANGED <<cwd, notOpenBabel>>

\* yield forcefield.Energy()
Yield(c) ==
    /\ ob[c].pc = "energy"
    /\ ob' = [ob EXCEPT ![c].pc = "yielded", ![c].energy = Energy(ob[c].OBMol)]
    /\ UNCHANGED <<cwd, notOpenBabel>>

NextOpenBabel ==
    \E c \in Calculations :
        \/ Write(c)
        \/ WriteRaises(c)
        \/ Read(c)
        \/ ReadRaises(c)
        \/ PerceiveBondOrders(c)
        \/ PerceiveBondOrdersRaises(c)
        \/ Finally(c)
        \/ FindForceFieldStep(c)
        \/ \E outcome \in BOOLEAN : Setup(c, outcome)
        \/ Yield(c)

SpecOpenBabel == InitOpenBabel /\ [][NextOpenBabel]_vars

SpecConcurrent == InitConcurrent /\ [][NextOpenBabel]_vars

\* Where the force field work of calculate is done, and where calculate ends.
ForceFieldWork == {"forcefield", "setup", "energy"}

Ended == {"yielded", "raised"}

\* C12: in one calculation, once the molecule has been written to temp.mol
\* the file is gone before any force field work starts and on every path:
\* whether reading and bond-order perception succeed or raise, temp.mol does
\* not exist when calculate yields its energy or raises.
C12_TempFileRemoved ==
    \A c \in Calculations :
        (ob[c].pc # "absent" /\ ob[c].wrote /\ ob[c].pc \in ForceFieldWork \cup Ended)
            => cwd = NoFile

\* calculate has raised out of the try block, after writing temp.mol over a
\* file that was there before.
C12_Witness ==
    /\ ob[1].pc = "raised"
    /\ ob[1].wrote
    /\ ob[1].raised = "RuntimeError"
    /\ cwd = NoFile

\* C13: when two calculations run at once in one working directory, each one
\* reads from temp.mol the molecule that it wrote itself: it never finds the
\* file missing or holding the molecule of the other calculation.
C13_ReadsOwnMolecule ==
    \A c \in Calculations :
        (ob[c].pc # "absent" /\ ob[c].pc \in {"read", "finally", "forcefield", "setup",
                                              "energy", "yielded"}
            /\ ob[c].pending = None)
            => ob[c].OBMol = <<ob[c].mol>>

(***************************************************************************)
(* mol_from_mae_file (utilities/utilities.py).  The file is a text of      *)
(* tokens as above; a label is a line, a sequence of words, and a data row *)
(* the words that row.split() gives.  A local variable of the function is  *)
(* <<>> as long as nothing was assigned to it and <<v>> when it holds v.   *)
(***************************************************************************)
\* Which of the strings mol_from_mae_file looks for ('m_atom[', 'm_bond[',
\* 'x_coord', 'y_coord', 'z_coord', 'atomic_number', 'from', 'to', 'order')
\* are substrings of a word: "atom" and "atomic" have "to" in them.
SubstringsOf(word) ==
    CASE word \in {"m_atom[" \o ToString(k) \o "]" : k \in 0..9} -> {"m_atom[", "to"}
      [] word \in {"m_bond[" \o ToString(k) \o "]" : k \in 0..9} -> {"m_bond["}
      [] word = "r_m_x_coord" -> {"x_coord"}
      [] word = "r_m_y_coord" -> {"y_coord"}
      [] word = "r_m_z_coord" -> {"z_coord"}
      [] word = "i_m_atomic_number" -> {"atomic_number", "to"}
      [] word \in {"s_m_pdb_atom_name", "atom"} -> {"to"}
      [] word \in {"i_m_from", "i_m_from_rep"} -> {"from"}
      [] word \in {"i_m_to", "i_m_to_rep"} -> {"to"}
      [] word = "i_m_order" -> {"order"}
      [] OTHER -> {}

\* needle in text, for a needle without white space.
InText(needle, text) == \E k \in 1..Len(text) : needle \in SubstringsOf(text[k])

\* [line for line in lines if not line.isspace() and line != '']
NonBlank(lines) == SelectSeq(lines, LAMBDA line : line # <<>>)

\* int(data): the decimal numerals, of either sign.
MaxInt == 30

int(data) ==
    IF \E k \in 0..MaxInt : data = ToString(k)
        THEN [raised |-> None, value |-> CHOOSE k \in 0..MaxInt : data = ToString(k)]
    ELSE IF data \in DOMAIN NumeralValue /\ NumeralValue[data] < 0
        THEN [raised |-> None, value |-> NumeralValue[data]]
    ELSE [raised |-> "ValueError", value |-> 0]

\* bond_dict and periodic_table, as far as the model's numerals go.
bond_dict == [order \in {"1", "am", "2", "3", "ar"} |->
                 CASE order \in {"1", "am"} -> "SINGLE"
                   [] order = "2" -> "DOUBLE"
                   [] order = "3" -> "TRIPLE"
                   [] order = "ar" -> "AROMATIC"]

periodic_table == [num \in {1, 6, 7, 8, 26} |->
                      CASE num = 1 -> "H"
                        [] num = 6 -> "C"
                        [] num = 7 -> "N"
                        [] num = 8 -> "O"
                        [] num = 26 -> "Fe"]

\* The loop over the blocks with the deque of the block before: the block
\* after a piece naming m_atom[ is the atom block, the last one wins.
RECURSIVE FindBlocks(_, _, _, _)
FindBlocks(content, k, prev_block, found) ==
    IF k > Len(content) THEN found
    ELSE FindBlocks(content, k + 1, content[k],
             [atom_block |-> IF InText("m_atom[", prev_block) THEN <<content[k]>>
                             ELSE found.atom_block,
              bond_block |-> IF InText("m_bond[", prev_block) THEN <<content[k]>>
                             ELSE found.bond_block])

\* labels, data_block, *_ = block.split(':::') and the two list comprehensions.
SplitBlock(block) ==
    LET parts == Split(block, {":::"})
    IN  IF Len(parts) < 2 THEN [raised |-> "ValueError", labels |-> <<>>, data_block |-> <<>>]
        ELSE [raised |-> None,
              labels |-> NonBlank(Split(parts[1], {"\n"})),
              data_block |-> NonBlank(Split(parts[2], {"\n"}))]

\* The state of the function: the exception it ended with, the editable
\* molecule, the conformer and the local variables of the two loops.
NewMolState ==
    [raised |-> None, mol |-> EditableMol, conf |-> <<>>,
     x |-> <<>>, y |-> <<>>, z |-> <<>>, atom_num |-> <<>>,
     atom1 |-> <<>>, atom2 |-> <<>>, bond_order |-> <<>>]

\* name = int(data) + offset, and name = float(data) for offset 0.
AssignNumber(st, name, data, offset) ==
    IF st.raised # None THEN st
    ELSE IF int(data).raised # None THEN [st EXCEPT !.raised = int(data).raised]
    ELSE [st EXCEPT ![name] = <<int(data).value + offset>>]

\* for label, data in zip(labels, line), atom block, from position k on.
RECURSIVE ReadAtomRow(_, _, _, _)
ReadAtomRow(st, labels, line, k) ==
    IF k > Len(labels) \/ k > Len(line) \/ st.raised # None THEN st
    ELSE LET sx == IF InText("x_coord", labels[k])
                       THEN AssignNumber(st, "x", line[k], 0) ELSE st
             sy == IF InText("y_coord", labels[k])
                       THEN AssignNumber(sx, "y", line[k], 0) ELSE sx
             sz == IF InText("z_coord", labels[k])
                       THEN AssignNumber(sy, "z", line[k], 0) ELSE sy
             sn == IF InText("atomic_number", labels[k])
                       THEN AssignNumber(sz, "atom_num", line[k], 0) ELSE sz
         IN  ReadAtomRow(sn, labels, line, k + 1)

\* periodic_table[atom_num], Point3D(x, y, z), mol.AddAtom, conf.SetAtomPosition
AddMaeAtom(st) ==
    IF st.raised # None THEN st
    ELSE IF st.atom_num = <<>> THEN [st EXCEPT !.raised = "UnboundLocalError"]
    ELSE IF st.atom_num[1] \notin DOMAIN periodic_table THEN [st EXCEPT !.raised = "KeyError"]
    ELSE IF st.x = <<>> \/ st.y = <<>> \/ st.z = <<>>
        THEN [st EXCEPT !.raised = "UnboundLocalError"]
    ELSE [st EXCEPT !.mol = AddAtom(@, [symbol |-> periodic_table[st.atom_num[1]]]),
                    !.conf = Append(@, <<st.x[1], st.y[1], st.z[1]>>)]

\* The loop over the atom rows: the lone '"' words are dropped, then the
\* number of words must be the number of labels.
RECURSIVE ReadAtomRows(_, _, _)
ReadAtomRows(st, labels, data_block) ==
    IF data_block = <<>> \/ st.raised # None THEN st
    ELSE LET line == SelectSeq(Head(data_block), LAMBDA word : word # "\"")
         IN  IF Len(labels) # Len(line) THEN [st EXCEPT !.raised = "RuntimeError"]
             ELSE ReadAtomRows(AddMaeAtom(ReadAtomRow(st, labels, line, 1)),
                               labels, Tail(data_block))

\* for label, data in zip(labels, line), bond block, from position k on.
RECURSIVE ReadBondRow(_, _, _, _)
ReadBondRow(st, labels, line, k) ==
    IF k > Len(labels) \/ k > Len(line) \/ st.raised # None THEN st
    ELSE LET sf == IF InText("from", labels[k])
                       THEN AssignNumber(st, "atom1", line[k], -1) ELSE st
             sto == IF InText("to", labels[k])
                        THEN AssignNumber(sf, "atom2", line[k], -1) ELSE sf
             so == IF InText("order", labels[k])
                       THEN AssignNumber(sto, "bond_order", line[k], 0) ELSE sto
         IN  ReadBondRow(so, labels, line, k + 1)

\* mol.AddBond(atom1, atom2, bond_dict[bond_order]), bond_order being
\* str(int(data)).
AddMaeBond(st) ==
    IF st.raised # None THEN st
    ELSE IF st.atom1 = <<>> \/ st.atom2 = <<>> \/ st.bond_order = <<>>
        THEN [st EXCEPT !.raised = "UnboundLocalError"]
    ELSE IF ToString(st.bond_order[1]) \notin DOMAIN bond_dict
        THEN [st EXCEPT !.raised = "KeyError"]
    ELSE LET added == AddBond(st.mol, st.atom1[1], st.atom2[1],
                              bond_dict[ToString(st.bond_order[1])])
         IN  IF added.raised # None THEN [st EXCEPT !.raised = added.raised]
             ELSE [st EXCEPT !.mol = added]

\* The loop over the bond rows: the number of words must be the number of
\* labels; no word is dropped here.
RECURSIVE ReadBondRows(_, _, _)
ReadBondRows(st, labels, data_block) ==
    IF data_block = <<>> \/ st.raised # None THEN st
    ELSE IF Len(labels) # Len(Head(data_block)) THEN [st EXCEPT !.raised = "RuntimeError"]
    ELSE ReadBondRows(AddMaeBond(ReadBondRow(st, labels, Head(data_block), 1)),
                      labels, Tail(data_block))

\* The atom block, then the bond block; a block that was not found is a local
\* variable that was never assigned.
ReadBlock(st, block, atoms) ==
    IF st.raised # None THEN st
    ELSE IF block = <<>> THEN [st EXCEPT !.raised = "UnboundLocalError"]
    ELSE LET split == SplitBlock(block[1])
         IN  IF split.raised # None THEN [st EXCEPT !.raised = split.raised]
             ELSE IF atoms THEN ReadAtomRows(st, split.labels, split.data_block)
             ELSE ReadBondRows(st, split.labels, split.data_block)

\* mol_from_mae_file, on the text of the file: the exception it raises, or
\* the molecule it returns (mol.GetMol() with the conformer added).
mol_from_mae_file(text) ==
    LET content == Split(text, {"{", "}"})
        found == FindBlocks(content, 1, <<>>, [atom_block |-> <<>>, bond_block |-> <<>>])
        st == ReadBlock(ReadBlock(NewMolState, found.atom_block, TRUE),
                        found.bond_block, FALSE)
    IN  IF st.raised # None THEN [EditableMol EXCEPT !.raised = st.raised]
        ELSE [st.mol EXCEPT !.conformers = <<st.conf>>]

(***************************************************************************)
(* The .mae files mol_from_mae_file is given: one structure of n atoms,    *)
(* hydrogen or carbon, and of bonds between them, written with the labels  *)
(* of MacroModel or, with i_m_from_rep and i_m_to_rep, those of Maestro;   *)
(* at most one row of the file is damaged.                                 *)
(***************************************************************************)
MaxMaeAtoms == 2
MaxMaeBonds == 1

AtomLabels ==
    <<<<"#", "First", "column", "is", "atom", "index", "#">>, <<"i_m_mmod_type">>,
      <<"r_m_x_coord">>, <<"r_m_y_coord">>, <<"r_m_z_coord">>, <<"s_m_pdb_atom_name">>,
      <<"i_m_atomic_number">>>>

BondLabels(rep) ==
    <<<<"#", "First", "column", "is", "bond", "index", "#">>, <<"i_m_from">>, <<"i_m_to">>,
      <<"i_m_order">>>> \o (IF rep THEN <<<<"i_m_from_rep">>, <<"i_m_to_rep">>>> ELSE <<>>)

\* Row k of the atom block: index, type, x, y, z, the name between two lone
\* quotes, the atomic number.
AtomRow(k, atomic_number) ==
    <<ToString(k), "3", ToString(k), "0", "-5", "\"", "A" \o ToString(k), "\"",
      ToString(atomic_number)>>

\* Row k of the bond block: index, from, to, order and the two
\* representations, which Maestro writes as 1.
BondRow(k, bond, rep) ==
    <<ToString(k), ToString(bond.from), ToString(bond.to), ToString(bond.order)>>
    \o (IF rep THEN <<"1", "1">> ELSE <<>>)

\* What can be wrong with a row: a word too many, a word missing, a lone
\* quote at its end.
Damages == {"extra", "missing", "quote"}

Damaged(row, damage) ==
    CASE damage = "extra" -> Append(row, "9")
      [] damage = "missing" -> SubSeq(row, 1, Len(row) - 1)
      [] damage = "quote" -> Append(row, "\"")
      [] OTHER -> row

NoDamage == [block |-> "none", row |-> 0, damage |-> "none"]

RowOf(row, block, k, damage) ==
    IF damage.block = block /\ damage.row = k THEN Damaged(row, damage.damage) ELSE row

\* lines, each ended by a newline.
RECURSIVE TextOfLines(_)
TextOfLines(lines) ==
    IF lines = <<>> THEN <<>> ELSE Head(lines) \o <<"\n">> \o TextOfLines(Tail(lines))

BlockOf(name, labels, rows) ==
    <<name \o ToString(Len(rows)) \o "]", "{", "\n">> \o TextOfLines(labels)
    \o <<":::", "\n">> \o TextOfLines(rows) \o <<":::", "\n", "}", "\n">>

\* The rows of the two blocks as the file holds them.
AtomRows(file) ==
    [k \in 1..Len(file.atoms) |-> RowOf(AtomRow(k, file.atoms[k]), "atom", k, file.damage)]

BondRows(file) ==
    [k \in 1..Len(file.bonds) |->
        RowOf(BondRow(k, file.bonds[k], file.rep), "bond", k, file.damage)]

MolFileText(file) ==
    Header \o <<"f_m_ct", "{", "\n", "s_m_title", "\n", ":::", "\n", "mol", "\n">>
    \o BlockOf("m_atom[", AtomLabels, AtomRows(file))
    \o BlockOf("m_bond[", BondLabels(file.rep), BondRows(file))
    \o <<"}", "\n">>

\* The bonds of a structure of n atoms: 1-based from and to, from below to
\* with order 1 and from above to with order 2, one bond a pair at most.
MaeBonds(n) ==
    {[from |-> a, to |-> b, order |-> IF a < b THEN 1 ELSE 2] :
        <<a, b>> \in {p \in (1..n) \X (1..n) : p[1] # p[2]}}

MaeBondKey(bond) ==
    IF bond.from < bond.to THEN bond.from * (MaxMaeAtoms + 2) + bond.to
    ELSE bond.to * (MaxMaeAtoms + 2) + bond.from

MaeBondLists(n) ==
    UNION {{bs \in [1..m -> MaeBonds(n)] :
                \A k \in 1..(m - 1) : MaeBondKey(bs[k]) < MaeBondKey(bs[k + 1])} :
           m \in 0..MaxMaeBonds}

DamagesOf(n, m) ==
    {NoDamage}
    \cup {[block |-> "atom", row |-> k, damage |-> d] : k \in 1..n, d \in Damages}
    \cup {[block |-> "bond", row |-> k, damage |-> d] : k \in 1..m, d \in Damages}

InitMolFile ==
    /\ IdleNetwork
    /\ IdleMAE
    /\ IdleEnergy
    /\ IdleXtb
    /\ IdleKill
    /\ IdleRdkit
    /\ IdleOpenBabel
    /\ \E n \in 1..MaxMaeAtoms : \E atoms \in [1..n -> {1, 6}] :
           \E bonds \in MaeBondLists(n) : \E rep \in BOOLEAN :
               \E damage \in DamagesOf(n, Len(bonds)) :
                   mf = [called |-> FALSE,
                         file |-> [atoms |-> atoms, bonds |-> bonds, rep |-> rep,
                                   damage |-> damage]]

MolFromMaeFile ==
    /\ ~mf.called
    /\ mf' = [mf EXCEPT !.called = TRUE] @@
             [result |-> mol_from_mae_file(MolFileText(mf.file))]
    /\ UNCHANGED notMolFile

NextMolFile == MolFromMaeFile

SpecMolFile == InitMolFile /\ [][NextMolFile]_vars

\* The words of an atom row that are left when its lone quotes are dropped.
WithoutQuotes(row) == SelectSeq(row, LAMBDA word : word # "\"")

\* Some atom row, its lone quotes dropped, or some bond row has a number of
\* fields that is not the number of labels of its block.
RowMismatch(file) ==
    \/ \E k \in 1..Len(file.atoms) : Len(WithoutQuotes(AtomRows(file)[k])) # Len(AtomLabels)
    \/ \E k \in 1..Len(file.bonds) : Len(BondRows(file)[k]) # Len(BondLabels(file.rep))

\* C14: mol_from_mae_file raises RuntimeError and returns no molecule whenever
\* an atom row (its lone quotes dropped) or a bond row has a number of fields
\* that differs from the number of labels of its block; otherwise the molecule
\* returned has one atom per atom row, in row order, and one bond per bond row,
\* which joins the atoms at the row's 1-based from and to numbers minus one.
C14_RowsBecomeAtomsAndBonds ==
    mf.called =>
        IF RowMismatch(mf.file)
            THEN mf.result.raised = "RuntimeError"
            ELSE /\ mf.result.raised = None
                 /\ Len(mf.result.atoms) = Len(mf.file.atoms)
                 /\ \A k \in 1..Len(mf.file.atoms) :
                        mf.result.atoms[k].symbol = periodic_table[mf.file.atoms[k]]
                 /\ Len(mf.result.bonds) = Len(mf.file.bonds)
                 /\ \A k \in 1..Len(mf.file.bonds) :
                        /\ mf.result.bonds[k].begin = mf.file.bonds[k].from - 1
                        /\ mf.result.bonds[k].end = mf.file.bonds[k].to - 1

====
